---- MODULE Spec2Model ----
(***************************************************************************)
(* Model of the Reddit post scheduler (src/app.py): the scheduled_posts    *)
(* table, the enqueue / list / delete request handlers, the publisher      *)
(* adapter post_to_reddit and the periodic job check_scheduled_posts that  *)
(* APScheduler's BackgroundScheduler runs every minute.                    *)
(*                                                                         *)
(* Text is modelled as a sequence of one-character strings, so that        *)
(* strip() and lstrip("r/") are computed.  An optional value (None / NULL) *)
(* is the empty tuple <<>>, a present value v is <<v>>.  Instants are      *)
(* seconds since 2024-03-09 00:00:00 UTC; a "%Y-%m-%d %H:%M" string is the *)
(* tuple <<day, hour, minute>> of its fixed-width fields, compared         *)
(* lexicographically as SQLite compares TEXT.                              *)
(***************************************************************************)
EXTENDS Integers, Sequences, FiniteSets, TLC

(***************************************************************************)
(* Bounds of the model.                                                    *)
(***************************************************************************)
MaxPosts == 2          \* rows ever inserted (AUTOINCREMENT values handed out)
MaxTicks == 1          \* advances of the wall clock
SubmitCap == 2         \* the count of submissions per id saturates here
NumSlots == 2          \* worker threads of the scheduler's executor modelled

(***************************************************************************)
(* Calendar arithmetic of datetime / strftime.                             *)
(***************************************************************************)
SecPerMin == 60
SecPerHour == 3600
SecPerDay == 86400

NULL == <<>>
Some(v) == <<v>>

Min(a, b) == IF a < b THEN a ELSE b

(***************************************************************************)
(* str.strip() and str.lstrip(chars).                                      *)
(***************************************************************************)
Whitespace == {" "}

RECURSIVE LStripSet(_, _)
LStripSet(s, cs) ==
    IF s # <<>> /\ Head(s) \in cs THEN LStripSet(Tail(s), cs) ELSE s

RECURSIVE RStripSet(_, _)
RStripSet(s, cs) ==
    IF s # <<>> /\ s[Len(s)] \in cs
    THEN RStripSet(SubSeq(s, 1, Len(s) - 1), cs)
    ELSE s

Strip(s) == RStripSet(LStripSet(s, Whitespace), Whitespace)

(***************************************************************************)
(* Time zones.  A zone is its UTC offset as a function of the instant; the *)
(* model covers 2024, in which America/Chicago moves from CST to CDT at    *)
(* 2024-03-10 08:00 UTC and back at 2024-11-03 07:00 UTC.                  *)
(***************************************************************************)
Zones == {"UTC", "America/Chicago"}

CST == 0 - 6 * SecPerHour
CDT == 0 - 5 * SecPerHour
DstStartUtc == 1 * SecPerDay + 8 * SecPerHour
DstEndUtc == 239 * SecPerDay + 7 * SecPerHour

\* tzinfo.utcoffset of an aware datetime built by fromutc: by instant.
UtcOffsetAt(tz, u) ==
    IF tz = "UTC" THEN 0
    ELSE IF u < DstStartUtc \/ u >= DstEndUtc THEN CST ELSE CDT

\* ZoneInfo.utcoffset(dt) for a wall-clock reading w with fold=0: a
\* transition takes effect at the wall time  transition + max(before, after).
UtcOffsetLocal(tz, w) ==
    IF tz = "UTC" THEN 0
    ELSE IF w < DstStartUtc + CDT THEN CST
    ELSE IF w < DstEndUtc + CDT THEN CDT
    ELSE CST

ZoneAbbrev(tz, u) ==
    IF tz = "UTC" THEN "UTC"
    ELSE IF UtcOffsetAt(tz, u) = CST THEN "CST" ELSE "CDT"

\* strftime("%Y-%m-%d %H:%M"): the seconds are dropped.
StrftimeRounded(u) ==
    << (u + 30) \div SecPerDay,
       ((u + 30) % SecPerDay) \div SecPerHour,
       ((u + 30) % SecPerHour) \div SecPerMin >>
Strftime(u) ==
    << u \div SecPerDay, (u % SecPerDay) \div SecPerHour, (u % SecPerHour) \div SecPerMin >>

\* datetime.strptime(s, "%Y-%m-%d %H:%M") as an instant of UTC.
Strptime(s) == s[1] * SecPerDay + s[2] * SecPerHour + s[3] * SecPerMin

\* SQLite's comparison of two TEXT values of this format.
TextLt(a, b) ==
    \/ a[1] < b[1]
    \/ a[1] = b[1] /\ a[2] < b[2]
    \/ a[1] = b[1] /\ a[2] = b[2] /\ a[3] < b[3]
TextLtOnly(a, b) == TextLt(a, b)
TextLeq(a, b) == a = b \/ TextLt(a, b)

(***************************************************************************)
(* The value of the post_time form field: empty, only blanks, text that is *)
(* no ISO date, or "D HH:MM:SS" with the fields as written.                *)
(***************************************************************************)
TimeStr(kind, d, h, mi, s) == [kind |-> kind, d |-> d, h |-> h, mi |-> mi, s |-> s]
NoTime == TimeStr("empty", 0, 0, 0, 0)
Iso(d, h, mi, s) == TimeStr("iso", d, h, mi, s)

StripTime(ts) == IF ts.kind = "blank" THEN NoTime ELSE ts

\* datetime.fromisoformat raises ValueError unless the text is an ISO date
\* whose fields are in range.
FromIsoOk(ts) ==
    /\ ts.kind = "iso"
    /\ ts.h \in 0..23
    /\ ts.mi \in 0..59
    /\ ts.s \in 0..59

\* The naive datetime as seconds of wall clock.
Naive(ts) == ts.d * SecPerDay + ts.h * SecPerHour + ts.mi * SecPerMin + ts.s

\* local_naive.replace(tzinfo=APP_TZ).astimezone(timezone.utc)
ToUtc(tz, w) == w - UtcOffsetLocal(tz, w)


(***************************************************************************)
(* Uploaded file names, as their parts between the dots.                   *)
(***************************************************************************)
ALLOWED_EXTENSIONS == {"png", "jpg", "jpeg", "gif"}

Lower(x) == IF x = "PNG" THEN "png" ELSE x

\* "." in filename and filename.rsplit(".", 1)[1].lower() in ALLOWED_EXTENSIONS
allowed_file(parts) ==
    Len(parts) >= 2 /\ Lower(parts[Len(parts)]) \in ALLOWED_EXTENSIONS

\* str(UPLOAD_DIR / f"{timestamp}_{safe}")
SavePath(parts) == <<"/", "u", "/">> \o parts

(***************************************************************************)
(* State.                                                                  *)
(***************************************************************************)
VARIABLES
    appTz,      \* APP_TZ, read from the environment at start
    now,        \* the wall clock, seconds of UTC
    db,         \* committed rows of scheduled_posts, by id
    nextId,     \* sqlite_sequence: the next AUTOINCREMENT value
    runs,       \* executor slots: the running instances of check_scheduled_posts
    reddit,     \* the platform: count of submissions accepted, by post id
    gone,       \* ids whose row a delete request removed
    origin,     \* the form that created each stored row
    resp,       \* the message flashed by the latest request of the web layer
    fresh       \* the process has started and its scheduler has fired no tick yet

vars == <<appTz, now, db, nextId, runs, reddit, gone, origin, resp, fresh>>

Slots == 1..NumSlots

\* add_job(...) without max_instances: APScheduler's default of one instance
MaxInstances == 1

StartTime == 23 * SecPerHour + 59 * SecPerMin + 30
ClockStep == 30
MaxNow == StartTime + MaxTicks * ClockStep

Errs == {"rate limited", "forbidden"}

(***************************************************************************)
(* The enqueue form.                                                       *)
(***************************************************************************)
Form(sub, title, ptype, ptime, dest, content, file) ==
    [subreddit |-> sub, title |-> title, post_type |-> ptype, post_time |-> ptime,
     flair_id |-> <<>>, flair_text |-> <<>>, destination_type |-> dest,
     content |-> content, image_file |-> file]

NoForm == Form(<<>>, <<>>, NULL, NoTime, NULL, <<>>, NULL)

\* request.form.get(key, default)
Get(field, default) == IF field = NULL THEN default ELSE field[1]

Falsy(opt) == opt = NULL \/ opt = Some("")

\* Lines 233-262: the content of the post, or the message of the rejection.
ContentOfUnchecked(f) ==
    IF Get(f.post_type, "") \in {"link", "text", "image"}
    THEN [flash |-> "", value |-> Strip(f.content)]
    ELSE [flash |-> "Invalid post type.", value |-> <<>>]
ContentOf(f) ==
    LET post_type == Get(f.post_type, "")
        text == Strip(f.content)
    IN  IF post_type = "link"
        THEN IF text = <<>> THEN [flash |-> "URL is required for link posts.", value |-> <<>>]
             ELSE [flash |-> "", value |-> text]
        ELSE IF post_type = "text"
        THEN IF text = <<>> THEN [flash |-> "Text body is required for text posts.", value |-> <<>>]
             ELSE [flash |-> "", value |-> text]
        ELSE IF post_type = "image"
        THEN IF f.image_file # NULL /\ f.image_file[1] # <<"">>
             THEN IF ~allowed_file(f.image_file[1])
                  THEN [flash |-> "Only PNG/JPG/JPEG/GIF images are allowed.", value |-> <<>>]
                  ELSE [flash |-> "", value |-> SavePath(f.image_file[1])]
             ELSE IF text = <<>>
                  THEN [flash |-> "Image file (or a valid image path) is required for image posts.",
                        value |-> <<>>]
                  ELSE [flash |-> "", value |-> text]
        ELSE [flash |-> "Invalid post type.", value |-> <<>>]

\* Lines 205-262: the message flashed when the form is rejected, "" when it
\* passes every check.
FlashNoSubredditCheck(f) ==
    IF Strip(f.title) = <<>> \/ Falsy(f.post_type) \/ StripTime(f.post_time) = NoTime
    THEN "Title, post type, and time are required."
    ELSE IF ~FromIsoOk(StripTime(f.post_time))
    THEN "Invalid date/time format. Please use the datetime picker."
    ELSE ContentOf(f).flash
Flash(f) ==
    LET subreddit == LStripSet(Strip(f.subreddit), {"r", "/"})
        title == Strip(f.title)
        post_time_str == StripTime(f.post_time)
        destination_type == Get(f.destination_type, "subreddit")
    IN  IF title = <<>> \/ Falsy(f.post_type) \/ post_time_str = NoTime
        THEN "Title, post type, and time are required."
        ELSE IF destination_type = "subreddit" /\ subreddit = <<>>
        THEN "Subreddit is required when posting to a subreddit."
        ELSE IF ~FromIsoOk(post_time_str)
        THEN "Invalid date/time format. Please use the datetime picker."
        ELSE ContentOf(f).flash

\* Lines 266-271: the row the INSERT stores.
NewRow(id, f, tz, clock) ==
    [id |-> id,
     subreddit |-> LStripSet(Strip(f.subreddit), {"r", "/"}),
     title |-> Strip(f.title),
     post_type |-> Get(f.post_type, ""),
     content |-> ContentOf(f).value,
     post_time |-> Strftime(ToUtc(tz, Naive(StripTime(f.post_time)))),
     posted |-> 0,
     last_error |-> NULL,
     created_at |-> Strftime(clock),
     flair_id |-> Strip(f.flair_id),
     flair_text |-> Strip(f.flair_text),
     destination_type |-> Get(f.destination_type, "subreddit")]


(***************************************************************************)
(* SQL on scheduled_posts.  A table is a function from the ids of its rows *)
(* to the rows.                                                            *)
(***************************************************************************)
EmptyTable == [i \in {} |-> 0]

\* INSERT INTO scheduled_posts ... (one new row)
SqlInsert(table, row) ==
    [i \in DOMAIN table \cup {row.id} |-> IF i = row.id THEN row ELSE table[i]]

\* DELETE FROM scheduled_posts WHERE id=?
SqlDeleteUncommitted(table, id) == table
SqlDelete(table, id) == [i \in DOMAIN table \ {id} |-> table[i]]

\* UPDATE scheduled_posts SET posted=1, last_error=NULL WHERE id=?
SqlMarkPostedKeepError(table, id) ==
    [i \in DOMAIN table |-> IF i = id THEN [table[i] EXCEPT !.posted = 1] ELSE table[i]]
SqlMarkPostedByReplace(table, id) ==
    [i \in DOMAIN table |->
        IF i = id
        THEN [table[i] EXCEPT !.posted = 1, !.last_error = NULL, !.created_at = <<0, 0, 0>>,
                              !.flair_id = <<>>, !.flair_text = <<>>]
        ELSE table[i]]
SqlMarkPosted(table, id) ==
    [i \in DOMAIN table |->
        IF i = id THEN [table[i] EXCEPT !.posted = 1, !.last_error = NULL] ELSE table[i]]

\* UPDATE scheduled_posts SET last_error=? WHERE id=?
SqlMarkFailedKeepFirst(table, id, err) ==
    [i \in DOMAIN table |->
        IF i = id /\ table[i].last_error = NULL
        THEN [table[i] EXCEPT !.last_error = Some(err)]
        ELSE table[i]]
SqlMarkFailedAsPosted(table, id, err) ==
    [i \in DOMAIN table |->
        IF i = id THEN [table[i] EXCEPT !.posted = 1, !.last_error = Some(err)] ELSE table[i]]
SqlMarkFailed(table, id, err) ==
    [i \in DOMAIN table |->
        IF i = id THEN [table[i] EXCEPT !.last_error = Some(err)] ELSE table[i]]

\* WHERE post_time<=? AND posted=0
DueAnyStatus(table, now_utc) ==
    {i \in DOMAIN table : TextLeq(table[i].post_time, now_utc)}
DueNeverFailed(table, now_utc) ==
    {i \in DOMAIN table :
        /\ TextLeq(table[i].post_time, now_utc)
        /\ table[i].posted = 0
        /\ table[i].last_error = NULL}
DueUnposted(table, now_utc) ==
    {i \in DOMAIN table : TextLeq(table[i].post_time, now_utc) /\ table[i].posted = 0}

\* The columns check_scheduled_posts selects.
Selected(row) ==
    [id |-> row.id, subreddit |-> row.subreddit, title |-> row.title,
     post_type |-> row.post_type, content |-> row.content, flair_id |-> row.flair_id,
     destination_type |-> row.destination_type]

\* The rows of ids, in rowid order.
RECURSIVE RowsById(_, _)
RowsById(table, ids) ==
    IF ids = {} THEN <<>>
    ELSE LET m == CHOOSE i \in ids : \A j \in ids : i <= j
         IN  <<Selected(table[m])>> \o RowsById(table, ids \ {m})

\* AUTOINCREMENT: one more than the largest id ever handed out.
AllocIdAfterLargest(table, seq) ==
    IF DOMAIN table = {} THEN 1
    ELSE 1 + (CHOOSE i \in DOMAIN table : \A j \in DOMAIN table : j <= i)
AllocId(table, seq) == seq

(***************************************************************************)
(* Listing: ORDER BY post_time, times shown in DISPLAY_TZ.                 *)
(***************************************************************************)
DISPLAY_TZ == "America/Chicago"

convert_utc_to_central_winter(utc_time_str) ==
    LET u == Strptime(utc_time_str)
    IN  Strftime(u + CST) \o <<"CST">>
convert_utc_to_central(utc_time_str) ==
    LET u == Strptime(utc_time_str)
    IN  Strftime(u + UtcOffsetAt(DISPLAY_TZ, u)) \o <<ZoneAbbrev(DISPLAY_TZ, u)>>

RECURSIVE OrderByPostTime(_, _)
OrderByPostTime(table, ids) ==
    IF ids = {} THEN <<>>
    ELSE LET m == CHOOSE i \in ids : \A j \in ids :
                      \/ TextLt(table[i].post_time, table[j].post_time)
                      \/ table[i].post_time = table[j].post_time /\ i <= j
         IN  <<m>> \o OrderByPostTime(table, ids \ {m})

PostsWithCt(table) ==
    LET order == OrderByPostTime(table, DOMAIN table)
    IN  [k \in 1..Len(order) |->
            [table[order[k]] EXCEPT !.post_time = convert_utc_to_central(@)]]

(***************************************************************************)
(* The web layer.                                                          *)
(***************************************************************************)
\* A connection of check_scheduled_posts holds SQLite's write lock from its
\* first UPDATE to its commit.  A write of a handler made meanwhile waits,
\* and when the wait runs out execute raises "database is locked": the
\* request ends without a row written and without a message flashed.
LockHeld == \E s \in Slots : runs[s].in_transaction

\* flash(message): the message goes into the session cookie of the answer;
\* a client that keeps cookies holds it until a page shows it.
FlashTo(cookies, message) == resp' = IF cookies THEN message ELSE resp

\* POST /
IndexPost(f, cookies) ==
    IF Flash(f) # ""
    THEN /\ FlashTo(cookies, Flash(f))
         /\ UNCHANGED <<appTz, now, db, nextId, runs, reddit, gone, origin, fresh>>
    ELSE IF LockHeld
    THEN UNCHANGED vars
    ELSE LET id == AllocId(db, nextId)
         IN  /\ db' = SqlInsert(db, NewRow(id, f, appTz, now))
             /\ nextId' = id + 1
             /\ origin' = SqlInsert(origin, [id |-> id, form |-> f])
             /\ FlashTo(cookies, "Scheduled!")
             /\ UNCHANGED <<appTz, now, runs, reddit, gone, fresh>>

\* GET /: the page shows PostsWithCt(db) and the flashed message, which
\* showing it empties.
IndexGet ==
    /\ resp' = ""
    /\ UNCHANGED <<appTz, now, db, nextId, runs, reddit, gone, origin, fresh>>

\* POST /delete/<post_id>
DeletePost(post_id, cookies) ==
    IF LockHeld
    THEN UNCHANGED vars
    ELSE /\ db' = SqlDelete(db, post_id)
         /\ gone' = IF post_id \in DOMAIN db THEN gone \cup {post_id} ELSE gone
         /\ origin' = SqlDelete(origin, post_id)
         /\ FlashTo(cookies, "Deleted.")
         /\ UNCHANGED <<appTz, now, nextId, runs, reddit, fresh>>

(***************************************************************************)
(* The publisher adapter.  ext is what the platform answers: NULL when it  *)
(* accepts the submission, Some(message) when the call raises.             *)
(***************************************************************************)
Answers == {NULL} \cup {Some(e) : e \in Errs}

\* An exception on its way up the stack, with the text str(e) gives.
Raise(e) == <<"raise", e>>
Raises(r) == Len(r) = 2

\* Lines 105-127: the body of the try: NULL when the submission is made, an
\* exception when the platform refuses it or the post type is unknown.
TryBody(row, ext) ==
    IF row.post_type \in {"link", "text", "image"}
    THEN IF ext = NULL THEN NULL ELSE Raise(ext[1])
    ELSE Raise("Unknown post_type")

\* Lines 104-129: except Exception as e: return str(e)
post_to_reddit_except_api_only(row, ext) ==
    LET r == TryBody(row, ext)
    IN  IF Raises(r) /\ r[2] \in Errs THEN Some(r[2]) ELSE r
post_to_reddit(row, ext) ==
    LET r == TryBody(row, ext)
    IN  IF Raises(r) THEN Some(r[2]) ELSE r

(***************************************************************************)
(* check_scheduled_posts, one instance per executor slot.                  *)
(***************************************************************************)
Idle ==
    [pc |-> "idle", now_utc |-> <<0, 0, 0>>, rows |-> <<>>, idx |-> 1,
     results |-> <<>>, txn |-> EmptyTable, in_transaction |-> FALSE]

Running == {s \in Slots : runs[s].pc # "idle"}

\* What the connection of a run reads: the committed rows under its own
\* uncommitted updates.
View(run) ==
    [i \in DOMAIN db |-> IF i \in DOMAIN run.txn THEN run.txn[i] ELSE db[i]]

\* The rows of table that differ from the committed ones.
WriteSet(table) ==
    LET changed == {i \in DOMAIN table : table[i] # db[i]}
    IN  [i \in changed |-> table[i]]

\* Lines 132-136: connect, read the clock, select the due rows.
ScanStart(s) ==
    LET now_utc == Strftime(now)
    IN  runs' = [runs EXCEPT ![s] =
                    [Idle EXCEPT !.pc = "loop", !.now_utc = now_utc,
                                 !.rows = RowsById(db, DueUnposted(db, now_utc))]]

\* The scheduler starts the job unless max_instances of it are running.
CanStartAlways(running) == TRUE
CanStart(running) == Cardinality(running) < MaxInstances

\* One firing of the interval trigger.
Tick ==
    \/ /\ CanStart(Running)
       /\ \E s \in Slots \ Running :
             /\ \A t \in Slots \ Running : s <= t
             /\ ScanStart(s)
       /\ fresh' = FALSE
       /\ UNCHANGED <<appTz, now, db, nextId, reddit, gone, origin, resp>>
    \/ /\ ~CanStart(Running)
       /\ fresh' = FALSE
       /\ UNCHANGED <<appTz, now, db, nextId, runs, reddit, gone, origin, resp>>

\* What the platform holds after the call of post_to_reddit for row.
RedditAfter(row, err) ==
    IF err = NULL
    THEN [i \in DOMAIN reddit \cup {row.id} |->
             IF i = row.id
             THEN Min(SubmitCap, 1 + (IF i \in DOMAIN reddit THEN reddit[i] ELSE 0))
             ELSE reddit[i]]
    ELSE reddit

\* Lines 137-143: one iteration of the loop: submit the row, record the outcome.
ScanItem(s, ext) ==
    LET run == runs[s]
        row == run.rows[run.idx]
        err == post_to_reddit(row, ext)
        view == View(run)
        updated == IF err = NULL THEN SqlMarkPosted(view, row.id)
                   ELSE SqlMarkFailed(view, row.id, err[1])
    IN  /\ run.pc = "loop"
        /\ run.idx <= Len(run.rows)
        /\ \A t \in Slots \ {s} : ~runs[t].in_transaction
        /\ IF Raises(err)
           THEN \* an exception out of the adapter ends the job uncommitted
                /\ reddit' = reddit
                /\ runs' = [runs EXCEPT ![s] = Idle]
           ELSE /\ reddit' = RedditAfter(row, err)
                /\ runs' = [runs EXCEPT ![s] =
                               [run EXCEPT !.idx = run.idx + 1,
                                           !.results = Append(run.results, err),
                                           !.txn = WriteSet(updated),
                                           !.in_transaction = TRUE]]
        /\ UNCHANGED <<appTz, now, db, nextId, gone, origin, resp, fresh>>

\* Lines 137-143 when c.execute of the UPDATE raises (sqlite3.OperationalError:
\* disk I/O error, database or disk is full, ...): the row has been submitted,
\* the exception leaves check_scheduled_posts before conn.commit(), and the
\* connection is dropped with its transaction, which SQLite rolls back.
ScanItemUpdateRaises(s, ext) ==
    LET run == runs[s]
        row == run.rows[run.idx]
        err == post_to_reddit(row, ext)
    IN  /\ run.pc = "loop"
        /\ run.idx <= Len(run.rows)
        /\ \A t \in Slots \ {s} : ~runs[t].in_transaction
        /\ reddit' = RedditAfter(row, err)
        /\ runs' = [runs EXCEPT ![s] = Idle]
        /\ UNCHANGED <<appTz, now, db, nextId, gone, origin, resp, fresh>>

\* Lines 144-145: commit and close.
ScanCommit(s) ==
    LET run == runs[s]
    IN  /\ run.pc = "loop"
        /\ run.idx > Len(run.rows)
        /\ db' = View(run)
        /\ runs' = [runs EXCEPT ![s] = Idle]
        /\ UNCHANGED <<appTz, now, nextId, reddit, gone, origin, resp, fresh>>

\* Time passes.
AdvanceClock ==
    /\ now + ClockStep <= MaxNow
    /\ now' = now + ClockStep
    /\ UNCHANGED <<appTz, db, nextId, runs, reddit, gone, origin, resp, fresh>>

(***************************************************************************)
(* The scheduling core under a few requests, sent by a client that keeps   *)
(* no cookies.                                                             *)
(***************************************************************************)
T == <<"T">>
C == <<"c">>

CoreForms ==
    { Form(<<"r", "/", "t">>, T, Some("text"), Iso(0, 23, 59, 0), Some("subreddit"), C, NULL),
      Form(<<>>, T, Some("link"), Iso(1, 0, 0, 30), Some("profile"), C, NULL),
      Form(<<"t">>, <<" ">>, Some("text"), Iso(0, 23, 59, 0), NULL, C, NULL) }

Ids == 1..(MaxPosts + 1)

CoreZones == {"UTC"}

Init ==
    /\ appTz \in CoreZones
    /\ now = StartTime
    /\ db = EmptyTable
    /\ nextId = 1
    /\ runs = [s \in Slots |-> Idle]
    /\ reddit = EmptyTable
    /\ gone = {}
    /\ origin = EmptyTable
    /\ resp = ""
    /\ fresh = TRUE

\* The model stops handing out ids at a bound; a form that is rejected needs none.
Room(f, bound) == Flash(f) # "" \/ nextId <= bound

Next ==
    \/ \E f \in CoreForms : Room(f, MaxPosts) /\ IndexPost(f, FALSE)
    \/ IndexGet
    \/ \E id \in Ids : DeletePost(id, FALSE)
    \/ Tick
    \/ \E s \in Slots, ext \in Answers : ScanItem(s, ext)
    \/ \E s \in Slots : ScanCommit(s)
    \/ AdvanceClock

Spec == Init /\ [][Next]_vars


(***************************************************************************)
(* The web layer alone under many forms, sent by a browser: a valid form   *)
(* with each field varied in turn, in either zone, while no scan is        *)
(* running.                                                                *)
(***************************************************************************)
WebPosts == 1

Subreddits == {<<>>, <<" ">>, <<"r", "/">>, <<"t">>, <<"r", "/", "t">>}
Destinations == {NULL, Some("subreddit"), Some("profile"), Some("user")}
Titles == {<<>>, <<" ">>, <<" ", "T">>}
PostTypes == {NULL, Some(""), Some("link"), Some("text"), Some("image"), Some("video")}
Contents == {<<>>, <<" ">>, C}
Files == {NULL, Some(<<"">>), Some(<<"a", "png">>), Some(<<"a", "PNG">>),
          Some(<<"a", "exe">>), Some(<<"a">>)}
Times ==
    { NoTime, TimeStr("blank", 0, 0, 0, 0), TimeStr("garbage", 0, 0, 0, 0),
      Iso(0, 24, 0, 0), Iso(0, 23, 60, 0),
      Iso(0, 23, 59, 59),       \* seconds to drop
      Iso(1, 1, 59, 59),        \* the last second of CST
      Iso(1, 2, 30, 0),         \* skipped in America/Chicago
      Iso(1, 3, 0, 0),          \* the first second of CDT
      Iso(239, 1, 30, 15),      \* read twice in America/Chicago
      Iso(239, 2, 0, 0) }       \* CST again

WebForms ==
    {Form(sub, T, Some("text"), Iso(0, 23, 59, 0), dest, C, NULL) :
        sub \in Subreddits, dest \in Destinations}
    \cup {Form(<<"t">>, title, Some("text"), Iso(0, 23, 59, 0), NULL, C, NULL) :
        title \in Titles}
    \cup {Form(<<"t">>, T, ptype, Iso(0, 23, 59, 0), NULL, content, NULL) :
        ptype \in PostTypes, content \in Contents}
    \cup {Form(<<"t">>, T, Some("image"), Iso(0, 23, 59, 0), NULL, content, file) :
        content \in {<<>>, C}, file \in Files}
    \cup {Form(<<"t">>, T, Some("link"), ptime, Some("profile"), C, NULL) :
        ptime \in Times}

WebInit ==
    /\ appTz \in Zones
    /\ now = StartTime
    /\ db = EmptyTable
    /\ nextId = 1
    /\ runs = [s \in Slots |-> Idle]
    /\ reddit = EmptyTable
    /\ gone = {}
    /\ origin = EmptyTable
    /\ resp = ""
    /\ fresh = TRUE

WebNext ==
    \/ \E f \in WebForms : Room(f, WebPosts) /\ IndexPost(f, TRUE)
    \/ IndexGet
    \/ \E id \in 1..(WebPosts + 1) : DeletePost(id, TRUE)
    \/ AdvanceClock

WebSpec == WebInit /\ [][WebNext]_vars

(***************************************************************************)
(* Notions the properties are stated with.                                 *)
(***************************************************************************)
RowIds(run) == {run.rows[k].id : k \in 1..Len(run.rows)}

\* The ids a run has still to submit, and those it has submitted.
ToSubmit(run) == {run.rows[k].id : k \in run.idx..Len(run.rows)}
Submitted(run) == {run.rows[k].id : k \in 1..(run.idx - 1)}

\* Slot s starts a run in this step; slot s commits its run in this step.
Starts(s) == runs[s].pc = "idle" /\ runs'[s].pc = "loop"
Commits(s) == runs[s].pc = "loop" /\ runs'[s].pc = "idle"

\* Stored items that are Pending with scheduledAt at or before the instant t.
DuePending(t) == {i \in DOMAIN db : db[i].posted = 0 /\ Strptime(db[i].post_time) <= t}

Accepted(id) == IF id \in DOMAIN reddit THEN reddit[id] ELSE 0

\* The instants the clock can still show.
Later(t) == {u \in t..MaxNow : (u - StartTime) % ClockStep = 0}

(***************************************************************************)
(* C1.  An item whose submission the platform has accepted is never        *)
(* submitted again: the platform accepts at most one submission per item,  *)
(* no run has such an item among the rows it has still to submit, and the  *)
(* rows a run has still to submit are never Posted in the store.           *)
(***************************************************************************)
C1_SubmittedOnce ==
    /\ \A id \in DOMAIN reddit : reddit[id] <= 1
    /\ \A s \in Slots : \A id \in ToSubmit(runs[s]) :
          /\ Accepted(id) = 0
          /\ id \in DOMAIN db => db[id].posted = 0

\* A run is in progress that started after an item that was due became Posted.
C1_Witness ==
    \E s \in Running : \E id \in DOMAIN db :
        /\ db[id].posted = 1
        /\ Accepted(id) = 1
        /\ TextLeq(db[id].post_time, runs[s].now_utc)
        /\ ~runs[s].in_transaction

(***************************************************************************)
(* C2.  When a run commits, every item it submitted with success and that  *)
(* is still stored is Posted with no lastError, whatever it held before.   *)
(***************************************************************************)
C2_SuccessPosted ==
    [][\A s \in Slots : Commits(s) =>
          \A k \in 1..Len(runs[s].results) :
              LET id == runs[s].rows[k].id
              IN  (runs[s].results[k] = NULL /\ id \in DOMAIN db') =>
                      (db'[id].posted = 1 /\ db'[id].last_error = NULL)]_vars

\* A run has marked Posted an item that holds the error of an earlier run.
C2_Witness ==
    \E s \in Running : \E k \in 1..Len(runs[s].results) :
        LET id == runs[s].rows[k].id
        IN  /\ runs[s].results[k] = NULL
            /\ id \in DOMAIN db
            /\ db[id].last_error # NULL
            /\ View(runs[s])[id].posted = 1
            /\ View(runs[s])[id].last_error = NULL

(***************************************************************************)
(* C3.  When a run commits, every item whose submission failed in it and   *)
(* that is still stored is Pending, holds the error text of that attempt,  *)
(* and is due and unposted for the query of any scan from now on.          *)
(***************************************************************************)
C3_FailureKept ==
    [][\A s \in Slots : Commits(s) =>
          \A k \in 1..Len(runs[s].results) :
              LET id == runs[s].rows[k].id
              IN  (runs[s].results[k] # NULL /\ id \in DOMAIN db') =>
                      /\ db'[id].posted = 0
                      /\ db'[id].last_error = runs[s].results[k]
                      /\ \A t \in Later(now) : id \in DueUnposted(db', Strftime(t))]_vars

\* A failed attempt is about to overwrite the different error of an earlier run.
C3_Witness ==
    \E s \in Running : \E k \in 1..Len(runs[s].results) :
        LET id == runs[s].rows[k].id
        IN  /\ runs[s].results[k] # NULL
            /\ id \in DOMAIN db
            /\ db[id].last_error # NULL
            /\ db[id].last_error # runs[s].results[k]
            /\ View(runs[s])[id].last_error = runs[s].results[k]

(***************************************************************************)
(* C4.  The rows a run selects when it starts at the instant now are       *)
(* exactly the stored items that are Pending with scheduledAt <= now, and  *)
(* no run has a stored item with a later scheduledAt among its rows.       *)
(***************************************************************************)
C4_SelectsExactlyDue ==
    [][/\ \A s \in Slots : Starts(s) => RowIds(runs'[s]) = DuePending(now)
       /\ \A s \in Slots : \A id \in RowIds(runs'[s]) \cap DOMAIN db' :
             Strptime(db'[id].post_time) <= now']_vars

\* A run selected a due item and left out a Pending item of a later minute.
C4_Witness ==
    \E s \in Running :
        /\ runs[s].rows # <<>>
        /\ \E i \in DOMAIN db \ RowIds(runs[s]) :
              db[i].posted = 0 /\ Strptime(db[i].post_time) > now
        /\ \E i \in RowIds(runs[s]) \cap DOMAIN db :
              Strftime(now) = db[i].post_time /\ now > Strptime(db[i].post_time)

(***************************************************************************)
(* C5.  An item removed by a delete request stays absent: from the store,  *)
(* from every listing, from what any run reads and writes (its UPDATE for  *)
(* the id changes nothing), and from the rows of every run that starts     *)
(* later; a delete of an absent id changes no row.                         *)
(***************************************************************************)
ListedIds(posts) == {posts[k].id : k \in 1..Len(posts)}

C5_DeletedStaysAbsent ==
    [][/\ \A id \in gone' :
             /\ id \notin DOMAIN db'
             /\ id \notin ListedIds(PostsWithCt(db'))
             /\ \A s \in Slots : id \notin DOMAIN View(runs[s])'
       /\ \A s \in Slots : Starts(s) => RowIds(runs'[s]) \cap gone = {}
       /\ \A id \in Ids \ DOMAIN db : DeletePost(id, FALSE) => db' = db]_vars

\* A run has issued its UPDATE for an item that was deleted after the run
\* had selected it.
C5_Witness ==
    \E s \in Running : Submitted(runs[s]) \cap gone # {}

(***************************************************************************)
(* C8.  Never more than one instance of check_scheduled_posts is running:  *)
(* a tick that arrives during a run starts nothing, and each of the other  *)
(* slots of the executor is idle.                                          *)
(***************************************************************************)
C8_SingleFlight ==
    /\ Cardinality(Running) <= 1
    /\ \A s \in Slots \ Running : runs[s] = Idle

\* A run is in the middle of its rows, where the next tick finds it running.
C8_Witness ==
    \E s \in Running :
        /\ runs[s].in_transaction
        /\ runs[s].idx <= Len(runs[s].rows)


(***************************************************************************)
(* The scheduling core with the scheduler firing its ticks, every run      *)
(* going on to its commit, and the platform accepting the submission of an *)
(* item that is submitted again and again.                                 *)
(***************************************************************************)
SubmitOk(id) ==
    \E s \in Slots :
        /\ runs[s].idx <= Len(runs[s].rows)
        /\ runs[s].rows[runs[s].idx].id = id
        /\ ScanItem(s, NULL)

Fairness ==
    /\ WF_vars(Tick)
    /\ WF_vars(\E s \in Slots, ext \in Answers : ScanItem(s, ext))
    /\ WF_vars(\E s \in Slots : ScanCommit(s))
    /\ \A id \in Ids : SF_vars(SubmitOk(id))

LivePosts == 1

LiveNext ==
    \/ \E f \in CoreForms : Room(f, LivePosts) /\ IndexPost(f, FALSE)
    \/ IndexGet
    \/ \E id \in Ids : DeletePost(id, FALSE)
    \/ Tick
    \/ \E s \in Slots, ext \in Answers : ScanItem(s, ext)
    \/ \E s \in Slots : ScanCommit(s)
    \/ AdvanceClock

LiveSpec == Init /\ [][LiveNext]_vars /\ Fairness

(***************************************************************************)
(* C9.  A run that starts selects every stored item that is due and        *)
(* Pending, whatever error earlier attempts left on it; and an item that   *)
(* is due and Pending is in time Posted or deleted.                        *)
(***************************************************************************)
Failing(t) == {i \in DuePending(t) : db[i].last_error # NULL}

C9_RetriedUntilPosted ==
    /\ [][\A s \in Slots : Starts(s) => Failing(now) \subseteq RowIds(runs'[s])]_vars
    /\ \A id \in Ids :
          (id \in DuePending(now)) ~> (id \notin DOMAIN db \/ db[id].posted = 1)

\* A run has selected again an item on which an earlier run left an error.
C9_Witness ==
    \E s \in Running : \E id \in ToSubmit(runs[s]) \cap DOMAIN db :
        db[id].last_error # NULL /\ db[id].posted = 0

(***************************************************************************)
(* C6.  A form the contract rejects (no title, post type or time; no       *)
(* subreddit for the destination type subreddit; a time that does not      *)
(* parse; no content for a link or text post; a post type other than link, *)
(* text, image) changes no row and inserts none, and so does every request *)
(* that is not answered "Scheduled!".                                      *)
(***************************************************************************)
Rejects(f) ==
    LET ptype == Get(f.post_type, "")
    IN  \/ Strip(f.title) = <<>>
        \/ ptype = ""
        \/ f.post_time.kind \in {"empty", "blank"}
        \/ /\ Get(f.destination_type, "subreddit") = "subreddit"
           /\ LStripSet(Strip(f.subreddit), {"r", "/"}) = <<>>
        \/ f.post_time.kind # "iso"
        \/ f.post_time.h > 23 \/ f.post_time.mi > 59 \/ f.post_time.s > 59
        \/ ptype \in {"link", "text"} /\ Strip(f.content) = <<>>
        \/ ptype \notin {"link", "text", "image"}

\* The form of the request that inserted row id in this step.
Inserted(id) == id \in DOMAIN db' \ DOMAIN db

C6_RejectedLeavesStore ==
    [][\/ db' = db /\ nextId' = nextId
       \/ resp' = "Deleted." /\ nextId' = nextId /\ \A i \in DOMAIN db' : db'[i] = db[i]
       \/ /\ resp' = "Scheduled!"
          /\ Inserted(nextId)
          /\ ~Rejects(origin'[nextId].form)
          /\ \A i \in DOMAIN db : db'[i] = db[i]]_vars

\* A form was rejected for its subreddit while a row was stored.
C6_Witness ==
    /\ resp = "Subreddit is required when posting to a subreddit."
    /\ DOMAIN db # {}

(***************************************************************************)
(* C7.  An accepted enqueue adds exactly one row, Pending and without      *)
(* lastError, and changes no other; every stored row has a title, has      *)
(* content when it is a link or a text, and has a subreddit when its       *)
(* destination type is subreddit.                                          *)
(***************************************************************************)
RowValid(row) ==
    /\ row.title # <<>>
    /\ row.post_type \in {"link", "text"} => row.content # <<>>
    /\ row.destination_type = "subreddit" => row.subreddit # <<>>

C7_AcceptedRowValid ==
    [][/\ (nextId' # nextId \/ DOMAIN db' \ DOMAIN db # {}) =>
             /\ resp' = "Scheduled!"
             /\ nextId' = nextId + 1
             /\ DOMAIN db' = DOMAIN db \cup {nextId}
             /\ nextId \notin DOMAIN db
             /\ db'[nextId].posted = 0
             /\ db'[nextId].last_error = NULL
             /\ \A i \in DOMAIN db : db'[i] = db[i]
       /\ (resp' = "Scheduled!" /\ resp # "Scheduled!") => Inserted(nextId)
       /\ \A i \in DOMAIN db' : RowValid(db'[i])]_vars

\* A text with content was stored for the subreddit typed as "r/t".
C7_Witness ==
    /\ resp = "Scheduled!"
    /\ \E i \in DOMAIN db :
          /\ origin[i].form.subreddit = <<"r", "/", "t">>
          /\ db[i].subreddit = <<"t">>
          /\ db[i].destination_type = "subreddit"
          /\ db[i].content = C
          /\ db[i].posted = 0
          /\ db[i].last_error = NULL

(***************************************************************************)
(* C10.  The post_time an accepted enqueue stores is the minute that holds *)
(* the instant of UTC at which the clocks of APP_TZ show the time typed    *)
(* into the form: the instant's seconds are dropped, never rounded up.  A  *)
(* time the clocks of the zone skip is read with the offset in force       *)
(* before they went forward.                                               *)
(***************************************************************************)
\* The instants at which the clocks of zone tz show the wall-clock time w.
InstantsShowing(tz, w) ==
    {u \in {w, w - CST, w - CDT} : u + UtcOffsetAt(tz, u) = w}

C10_StoredTimeIsUtcMinute ==
    [][Inserted(nextId) =>
          LET w == Naive(StripTime(origin'[nextId].form.post_time))
              stored == Strptime(db'[nextId].post_time)
              meant == IF InstantsShowing(appTz, w) # {}
                       THEN InstantsShowing(appTz, w)
                       ELSE {w - CST}
          IN  \E u \in meant : stored <= u /\ u < stored + SecPerMin]_vars

\* 01:30:15 of the night the clocks of Chicago go back is stored as 06:30.
C10_Witness ==
    /\ appTz = "America/Chicago"
    /\ \E i \in DOMAIN db :
          /\ origin[i].form.post_time = Iso(239, 1, 30, 15)
          /\ db[i].post_time = <<239, 6, 30>>

(***************************************************************************)
(* C11.  Round trip of the time normaliser, as the code makes it: when the *)
(* source zone APP_TZ is the zone the listing shows times in, a row's time *)
(* is listed as the date, hour and minute typed into the form (followed by *)
(* the abbreviation of the zone), for every time the clocks of the zone    *)
(* show.                                                                    *)
(***************************************************************************)
\* The time the listing shows for the stored row i.
Shown(i) ==
    LET posts == PostsWithCt(db)
        k == CHOOSE k \in 1..Len(posts) : posts[k].id = i
    IN  posts[k].post_time

\* The date, hour and minute typed into the form of row i.
Typed(i) ==
    LET t == origin[i].form.post_time IN <<t.d, t.h, t.mi>>

C11_RoundTripInDisplayZone ==
    \A i \in DOMAIN db :
        LET w == Naive(StripTime(origin[i].form.post_time))
        IN  (appTz = DISPLAY_TZ /\ InstantsShowing(appTz, w) # {}) =>
                /\ SubSeq(Shown(i), 1, 3) = Typed(i)
                /\ Shown(i)[4] = ZoneAbbrev(appTz, Strptime(db[i].post_time))

\* The claim as stated: for any source zone the listing reproduces the time.
C11_RoundTripAnyZone ==
    \A i \in DOMAIN db : SubSeq(Shown(i), 1, 3) = Typed(i)

\* 03:00 of the morning the clocks of Chicago went forward, listed as typed.
C11_Witness ==
    /\ appTz = "America/Chicago"
    /\ \E i \in DOMAIN db :
          /\ origin[i].form.post_time = Iso(1, 3, 0, 0)
          /\ db[i].post_time = <<1, 8, 0>>
          /\ Shown(i) = <<1, 3, 0, "CDT">>

(***************************************************************************)
(* C12.  Status is one-way: a stored item that is Posted is Posted after   *)
(* every step, in the store and in what every run reads; the UPDATE of a   *)
(* failed submission leaves the item's status as it was, and so does the   *)
(* commit of the run for every item whose submission failed in it.         *)
(***************************************************************************)
C12_StatusOneWay ==
    [][/\ \A i \in DOMAIN db \cap DOMAIN db' : db[i].posted = 1 => db'[i].posted = 1
       /\ \A s \in Slots : \A i \in DOMAIN db \cap DOMAIN db' :
             View(runs[s])[i].posted = 1 => View(runs[s])'[i].posted = 1
       /\ \A s \in Slots :
             (runs[s].pc = "loop" /\ runs'[s].idx = runs[s].idx + 1
                  /\ runs'[s].results[runs[s].idx] # NULL) =>
                 LET id == runs[s].rows[runs[s].idx].id
                 IN  id \in DOMAIN db =>
                         View(runs[s])'[id].posted = View(runs[s])[id].posted
       /\ \A s \in Slots : Commits(s) =>
             \A k \in 1..Len(runs[s].results) :
                 LET id == runs[s].rows[k].id
                 IN  (runs[s].results[k] # NULL /\ id \in DOMAIN db') =>
                         db'[id].posted = db[id].posted]_vars

\* One item is Posted, and a run that started later holds the failed
\* submission of another item, which is still Pending.
C12_Witness ==
    \E s \in Running : \E i \in DOMAIN db : \E k \in 1..Len(runs[s].results) :
        LET id == runs[s].rows[k].id
        IN  /\ db[i].posted = 1
            /\ runs[s].results[k] # NULL
            /\ id \in DOMAIN db
            /\ View(runs[s])[id].posted = 0
            /\ View(runs[s])[id].last_error # NULL

(***************************************************************************)
(* The scheduling core on a store whose UPDATE can fail.                   *)
(***************************************************************************)
FaultNext ==
    \/ \E f \in CoreForms : Room(f, MaxPosts) /\ IndexPost(f, FALSE)
    \/ IndexGet
    \/ \E id \in Ids : DeletePost(id, FALSE)
    \/ Tick
    \/ \E s \in Slots, ext \in Answers : ScanItem(s, ext)
    \/ \E s \in Slots, ext \in Answers : ScanItemUpdateRaises(s, ext)
    \/ \E s \in Slots : ScanCommit(s)
    \/ AdvanceClock

FaultSpec == Init /\ [][FaultNext]_vars

(***************************************************************************)
(* C13.  Each item of a scan is processed on its own: when a run ends,     *)
(* every row it selected has been submitted, once, and the outcome of      *)
(* every row it processed is in the store: Posted without lastError after  *)
(* a success, the error text of the attempt after a failure.               *)
(***************************************************************************)
\* Slot s ends its run in this step, by its commit or by an exception.
Ends(s) == runs[s].pc = "loop" /\ runs'[s].pc = "idle"

C13_ItemsIndependent ==
    [][\A s \in Slots : Ends(s) =>
          \* every selected row was submitted: the step is the commit, or it
          \* submitted the last row
          /\ runs[s].idx >= Len(runs[s].rows)
          /\ \A k \in 1..Len(runs[s].results) :
                LET id == runs[s].rows[k].id
                    err == runs[s].results[k]
                IN  id \in DOMAIN db' =>
                        IF err = NULL
                        THEN db'[id].posted = 1 /\ db'[id].last_error = NULL
                        ELSE db'[id].last_error = err]_vars

(***************************************************************************)
(* C14.  No delete takes effect between a run's reading of an item and the *)
(* run's writing of the item's outcome: no run has among the rows it       *)
(* selected, written or still to write, an id that a delete has removed.   *)
(* (A delete cannot follow the write: the run holds the write lock from    *)
(* its first UPDATE to its commit, and its rows are dropped at the         *)
(* commit.)                                                                *)
(***************************************************************************)
C14_NoDeleteInsideItem ==
    \A s \in Slots : RowIds(runs[s]) \cap gone = {}

(***************************************************************************)
(* The scanner over a table that holds rows when the process starts: the   *)
(* database file outlives the process, and post_type and destination_type  *)
(* are TEXT columns without a CHECK.  The rows are drawn from StoredTypes  *)
(* and StoredDestinations.                                                 *)
(***************************************************************************)
StoredRows == 2

StoredTypes == {"text", "video"}
StoredDestinations == <<"subreddit", "profile">>

StoredRow(id, ptype) ==
    [id |-> id, subreddit |-> <<"t">>, title |-> T, post_type |-> ptype, content |-> C,
     post_time |-> <<0, 23, 59>>, posted |-> 0, last_error |-> NULL,
     created_at |-> <<0, 0, 0>>, flair_id |-> <<>>, flair_text |-> <<>>,
     destination_type |-> StoredDestinations[1 + (id % 2)]]

StoredInit ==
    /\ appTz \in CoreZones
    /\ now = StartTime
    /\ \E types \in [1..StoredRows -> StoredTypes] :
          db = [i \in 1..StoredRows |-> StoredRow(i, types[i])]
    /\ nextId = StoredRows + 1
    /\ runs = [s \in Slots |-> Idle]
    /\ reddit = EmptyTable
    /\ gone = {}
    /\ origin = EmptyTable
    /\ resp = ""
    /\ fresh = TRUE

StoredNext ==
    \/ IndexGet
    \/ \E id \in 1..StoredRows : DeletePost(id, FALSE)
    \/ Tick
    \/ \E s \in Slots, ext \in Answers : ScanItem(s, ext)
    \/ \E s \in Slots : ScanCommit(s)
    \/ AdvanceClock

StoredSpec == StoredInit /\ [][StoredNext]_vars

(***************************************************************************)
(* C15.  post_to_reddit never raises: every step of a run's loop leaves    *)
(* the run in its loop, one row further, with the adapter's answer         *)
(* recorded: NULL, or the text of the platform's failure, or the text of   *)
(* the ValueError for a post type that is not link, text or image; a       *)
(* failure submits nothing.                                                *)
(***************************************************************************)
\* Slot s makes a step of its loop.
LoopStep(s) ==
    /\ runs[s].pc = "loop"
    /\ runs[s].idx <= Len(runs[s].rows)
    /\ runs'[s] # runs[s]

C15_AdapterNeverRaises ==
    [][\A s \in Slots : LoopStep(s) =>
          LET row == runs[s].rows[runs[s].idx]
              r == runs'[s].results[runs[s].idx]
          IN  /\ runs'[s].pc = "loop"
              /\ runs'[s].idx = runs[s].idx + 1
              /\ runs'[s].rows = runs[s].rows
              /\ Len(runs'[s].results) = runs[s].idx
              /\ r = NULL \/ (Len(r) = 1 /\ r[1] \in Errs \cup {"Unknown post_type"})
              /\ row.post_type \notin {"link", "text", "image"} =>
                     r = Some("Unknown post_type")
              /\ r # NULL => reddit' = reddit]_vars

\* A run went on to its second row after the adapter had answered the
\* first, of an unknown post type, with the text of the error.
C15_Witness ==
    \E s \in Running :
        /\ runs[s].idx = 2
        /\ Len(runs[s].rows) = 2
        /\ runs[s].rows[1].post_type = "video"
        /\ runs[s].results[1] = Some("Unknown post_type")

(***************************************************************************)
(* C16.  Frame of the scan and of the listing.  A step of a run (its       *)
(* start, an iteration of its loop, its commit) inserts and deletes no row *)
(* and changes no field of a stored row but posted and last_error; what a  *)
(* run's connection reads differs from the committed rows in those two     *)
(* fields only; GET / changes no row.                                      *)
(***************************************************************************)
\* A row without its status and lastError.
Frame(row) == [row EXCEPT !.posted = 0, !.last_error = NULL]

C16_ScanTouchesStatusOnly ==
    [][/\ runs' # runs =>
             /\ DOMAIN db' = DOMAIN db
             /\ nextId' = nextId
             /\ \A i \in DOMAIN db : Frame(db'[i]) = Frame(db[i])
       /\ \A s \in Slots :
             /\ DOMAIN View(runs[s])' = DOMAIN db'
             /\ \A i \in DOMAIN db' : Frame(View(runs[s])'[i]) = Frame(db'[i])
       /\ IndexGet => db' = db]_vars

\* A run has committed: one row is Posted, another holds an error, and
\* both are otherwise the rows their forms had stored.
C16_Witness ==
    /\ Running = {}
    /\ \E i, j \in DOMAIN db :
          /\ db[i].posted = 1
          /\ db[j].posted = 0 /\ db[j].last_error # NULL
          /\ \A k \in {i, j} :
                Frame(db[k]) = [NewRow(k, origin[k].form, appTz, Strptime(db[k].created_at))
                                    EXCEPT !.id = k]

(***************************************************************************)
(* C17.  Every stored row has a destination_type that is subreddit or      *)
(* profile and a post_type that is link, text or image.                    *)
(***************************************************************************)
C17_KindsClosed ==
    \A i \in DOMAIN db :
        /\ db[i].destination_type \in {"subreddit", "profile"}
        /\ db[i].post_type \in {"link", "text", "image"}

(***************************************************************************)
(* The scheduling core of a process that can be stopped and started again  *)
(* at any point.                                                           *)
(***************************************************************************)
\* The process ends and the module is loaded again (lines 14-322): the
\* threads of the old process are gone, the transaction of a run that had
\* not committed is rolled back by SQLite when the file is next opened, and
\* BackgroundScheduler() is built anew with its job in memory.  The table,
\* sqlite_sequence and the platform keep what they held.
RestartResumes ==
    /\ fresh' = TRUE
    /\ UNCHANGED <<appTz, now, db, nextId, runs, reddit, gone, origin, resp>>
Restart ==
    /\ runs' = [s \in Slots |-> Idle]
    /\ fresh' = TRUE
    /\ UNCHANGED <<appTz, now, db, nextId, reddit, gone, origin, resp>>

RestartPosts == 1

RestartNext ==
    \/ \E f \in CoreForms : Room(f, RestartPosts) /\ IndexPost(f, FALSE)
    \/ IndexGet
    \/ \E id \in Ids : DeletePost(id, FALSE)
    \/ Tick
    \/ \E s \in Slots, ext \in Answers : ScanItem(s, ext)
    \/ \E s \in Slots : ScanCommit(s)
    \/ AdvanceClock
    \/ Restart

RestartSpec == Init /\ [][RestartNext]_vars

(***************************************************************************)
(* C18.  Restart pickup.  The first tick after the process has started     *)
(* finds no run in progress and starts one, whose rows are exactly the     *)
(* stored items that are Pending with scheduledAt at or before the instant *)
(* of the tick; a start of the process leaves the committed rows as they   *)
(* were; and a run that commits has submitted every row it selected.       *)
(***************************************************************************)
C18_RestartPickup ==
    [][/\ (fresh /\ ~fresh') =>
             \E s \in Slots : Starts(s) /\ RowIds(runs'[s]) = DuePending(now)
       /\ (~fresh /\ fresh') => db' = db
       /\ \A s \in Slots : (Commits(s) /\ ~fresh') =>
             /\ Len(runs[s].results) = Len(runs[s].rows)
             /\ \A k \in 1..Len(runs[s].rows) :
                   runs[s].results[k] = NULL => Accepted(runs[s].rows[k].id) >= 1]_vars

\* The process was started again in the middle of a scan that had submitted
\* an item with success, and the run of the first tick after that has
\* selected the item, which is still Pending.
C18_Witness ==
    \E s \in Running : \E id \in RowIds(runs[s]) \cap DOMAIN db :
        /\ ~fresh
        /\ Accepted(id) >= 1
        /\ db[id].posted = 0
        /\ db[id].last_error = NULL
        /\ runs[s].idx = 1

(***************************************************************************)
(* C19.  A Posted item has no lastError, in the committed rows and in what *)
(* every run reads.                                                        *)
(***************************************************************************)
C19_PostedHasNoError ==
    /\ \A i \in DOMAIN db : db[i].posted = 1 => db[i].last_error = NULL
    /\ \A s \in Slots : \A i \in DOMAIN db :
          View(runs[s])[i].posted = 1 => View(runs[s])[i].last_error = NULL

\* An item is Posted after a scan that left an error on another item, and
\* a later run is in progress.
C19_Witness ==
    \E s \in Running : \E i, j \in DOMAIN db :
        /\ db[i].posted = 1 /\ db[i].last_error = NULL /\ Accepted(i) = 1
        /\ db[j].posted = 0 /\ db[j].last_error # NULL
        /\ j \in RowIds(runs[s])

(***************************************************************************)
(* C20.  Ids are unique and never used again: an insert takes an id larger *)
(* than every id handed out before, which no row holds and no delete has   *)
(* removed; so the UPDATE a run issues for an id whose row was deleted     *)
(* after the run had read it changes nothing, and every UPDATE of a run    *)
(* changes the row of its own id only.                                     *)
(***************************************************************************)
C20_IdsNeverReused ==
    [][/\ \A id \in DOMAIN db' \ DOMAIN db :
             /\ id \notin gone
             /\ id >= nextId /\ nextId' > id
             /\ \A i \in DOMAIN db \cup gone : i < id
       /\ \A i \in DOMAIN db' : i < nextId'
       /\ \A s \in Slots : LoopStep(s) =>
             LET id == runs[s].rows[runs[s].idx].id
             IN  /\ \A i \in DOMAIN db \ {id} : View(runs[s])'[i] = View(runs[s])[i]
                 /\ id \in gone =>
                        /\ id \notin DOMAIN db
                        /\ View(runs[s])' = View(runs[s])
                        /\ runs'[s].txn = runs[s].txn]_vars

\* A run has issued its UPDATE for an id deleted after the run had read
\* it, while the store holds an item enqueued after the delete, untouched.
C20_Witness ==
    \E s \in Running : \E g \in Submitted(runs[s]) \cap gone : \E i \in DOMAIN db :
        /\ i > g
        /\ i \notin RowIds(runs[s])
        /\ View(runs[s])[i] = db[i]
        /\ db[i].posted = 0 /\ db[i].last_error = NULL

====
